---- MODULE Spec2Model ----
(***************************************************************************)
(* Bingokaarten-maker: the App component (src/App.tsx) as a state machine. *)
(* The React state fields are the variables; every event handler, effect   *)
(* and continuation of an awaited call is one action.                      *)
(***************************************************************************)
EXTENDS Integers, Sequences, FiniteSets, TLC

VARIABLES
    status,           \* GeneratorStatus
    items,            \* BingoItem[]  (the pool, shown by the calling list)
    cards,            \* BingoCardData[]
    subjectContext,   \* {subject, isMath}
    tempSubjectName,
    gridRows, gridCols,
    cardCount, poolSize, minPoolSize,
    topic, selectedImage,
    isDownloading, downloadProgress,
    aiCall,           \* the outstanding detectSubject / generateBingoItems call
    export,           \* the running handleDownloadPDF invocation; after it
                      \* saved a file with the calling list, the images of
                      \* that list
    effects           \* what the last step did to the outside world (alerts,
                      \* console errors, the saved file), "reshuffle" when it
                      \* was a press of the reshuffle button and "generated"
                      \* when it was the continuation of generateBingoItems

vars == << status, items, cards, subjectContext, tempSubjectName, gridRows,
           gridCols, cardCount, poolSize, minPoolSize, topic, selectedImage,
           isDownloading, downloadProgress, aiCall, export, effects >>

genVars == << status, items, cards, subjectContext, tempSubjectName >>
settingVars == << gridRows, gridCols, cardCount, poolSize, minPoolSize >>
inputVars == << topic, selectedImage >>
exportVars == << isDownloading, downloadProgress, export >>

(***************************************************************************)
(* Bounds of the model.                                                    *)
(***************************************************************************)
\* card counts the user types in the main specification
MaxCards == 2
\* largest grid option the user picks in the main specification
MaxGrid == 4
\* card counts and pool sizes the user types in the sizing specification
MaxSizingCards == 40
MaxPoolInput == 3
\* lengths of the pools the AI service answers with
SmallPoolLen == 5
LargePoolLen == 13
\* Math.random(): the streams it can produce, and their resolution
MaxSeed == 1
RandDen == 5
\* length of the contents (answers, problems) shown by the card view and the calling list
MaxContentLen == 3
\* cards of the sets whose export is laid out
MaxPdfCards == 7
\* width and height in pixels of the canvases html2canvas answers with for
\* the calling list
MaxCanvasWidth == 3
MaxCanvasHeight == 12

(***************************************************************************)
(* Program constants.                                                      *)
(***************************************************************************)
InitialCardCount == 30
InitialGrid == 3
PoolCeiling == 100
\* the page and the card of the PDF, in mm
pageHeight == 297
margin == 10
cardWidth == 90
gap == 10
headerHeight == 8
contentWidth == 190
\* the options of the two grid selects
AllGridOptions == {3, 4, 5}
\* the options the user picks in the main specification
GridOptions == { n \in AllGridOptions : n <= MaxGrid }

IDLE == "IDLE"
DETECTING == "DETECTING"
CONFIRMING == "CONFIRMING"
GENERATING == "GENERATING"
SUCCESS == "SUCCESS"
ERROR == "ERROR"
GeneratorStatus == {IDLE, DETECTING, CONFIRMING, GENERATING, SUCCESS, ERROR}

NoCall == [kind |-> "none"]
NoExport == [pc |-> "none"]

Max(a, b) == IF a >= b THEN a ELSE b
Min(a, b) == IF a <= b THEN a ELSE b

(***************************************************************************)
(* Combinatorics helpers.                                                  *)
(***************************************************************************)
\* the loop of getCombinations: res = res * (n - i + 1) / i for i = 1..r.
\* After step i the value is C(n, i), so the product is divisible by i and
\* the floating point division of the code is exact; Math.round is then the
\* identity.
RECURSIVE CombLoop(_, _, _, _)
CombLoop(n, r, i, res) ==
    IF i > r THEN res
    ELSE CombLoop(n, r, i + 1, (res * (n - i + 1)) \div i)

getCombinations(n, r) ==
    IF r > n THEN 0
    ELSE IF r = 0 \/ r = n THEN 1
    ELSE LET r2 == IF 2 * r > n THEN n - r ELSE r
         IN  CombLoop(n, r2, 1, 1)

getItemsPerCard(rows, cols) == rows * cols

\* a card count above every number of combinations the search computes
\* (C(n, k) < 10^24 for n <= 100 and k <= 25), such as 2000000000000 on a
\* 3 x 3 grid.  TLC's integers hold neither the count nor the combinations;
\* the model keeps of them that the comparison fails.
HugeCount == 2147483647

\* combinations >= cardCount, for combinations = getCombinations(n, itemsPerCard)
EnoughCombinations(n, itemsPerCard, count) ==
    IF count = HugeCount THEN FALSE
    ELSE getCombinations(n, itemsPerCard) >= count

\* a bug: combinations > cardCount
RECURSIVE MinPoolSearch_Strict(_, _, _)
MinPoolSearch_Strict(n, itemsPerCard, count) ==
    IF count # HugeCount /\ getCombinations(n, itemsPerCard) > count THEN n
    ELSE IF n + 1 > PoolCeiling THEN n + 1
    ELSE MinPoolSearch_Strict(n + 1, itemsPerCard, count)

\* the while (true) loop of the sizing effect, from calculatedMinPool = n
RECURSIVE MinPoolSearch(_, _, _)
MinPoolSearch(n, itemsPerCard, count) ==
    IF EnoughCombinations(n, itemsPerCard, count) THEN n
    ELSE IF n + 1 > PoolCeiling THEN n + 1
    ELSE MinPoolSearch(n + 1, itemsPerCard, count)

calculatedMinPool(rows, cols, count) ==
    MinPoolSearch(getItemsPerCard(rows, cols), getItemsPerCard(rows, cols), count)

\* a bug: Math.min for Math.max
suggestedMin_Min(rows, cols, count) ==
    Min(calculatedMinPool(rows, cols, count), getItemsPerCard(rows, cols) + 1)

\* Math.max(calculatedMinPool, itemsPerCard + 1)
suggestedMin(rows, cols, count) ==
    Max(calculatedMinPool(rows, cols, count), getItemsPerCard(rows, cols) + 1)

(***************************************************************************)
(* Shuffling and card generation.                                          *)
(***************************************************************************)
\* Math.random() of stream `seed` at its t-th call is RandNum / RandDen
RandNum(seed, t) == (seed * (t + 1)) % RandDen

\* Math.floor(Math.random() * m)
RandomIndex(seed, t, m) == (RandNum(seed, t) * m) \div RandDen

\* [arr[i], arr[j]] = [arr[j], arr[i]]  (1-based positions a, b)
Swap(arr, a, b) ==
    [x \in 1..Len(arr) |-> IF x = a THEN arr[b] ELSE IF x = b THEN arr[a] ELSE arr[x]]

\* for (let i = arr.length - 1; i > 0; i--) with 0-based i; t counts the
\* calls of Math.random() made so far
RECURSIVE ShuffleLoop(_, _, _, _)
ShuffleLoop(arr, i, seed, t) ==
    IF i <= 0 THEN arr
    ELSE LET j == RandomIndex(seed, t, i + 1)
         IN  ShuffleLoop(Swap(arr, i + 1, j + 1), i - 1, seed, t + 1)

\* a bug: const arr = array, the shuffle works on the caller's array
shuffleArray_InPlace(array, seed, t) ==
    LET r == ShuffleLoop(array, Len(array) - 1, seed, t)
    IN  [arr |-> r, array |-> r]

\* arr is the returned array, array the argument as the call leaves it:
\* const arr = [...array] is a copy, the argument is not touched
shuffleArray(array, seed, t) ==
    [arr |-> ShuffleLoop(array, Len(array) - 1, seed, t), array |-> array]

\* calls of Math.random() one shuffle of an array of n elements makes
ShuffleCalls(n) == IF n > 1 THEN n - 1 ELSE 0

\* shuffled.slice(0, n)
Slice(s, n) == SubSeq(s, 1, Min(n, Len(s)))

\* the for loop of generateCards from card i on: pool is the pool array as
\* the shuffles so far left it, newCards the cards pushed so far
RECURSIVE CardLoop(_, _, _, _, _, _)
CardLoop(pool, count, needed, seed, i, newCards) ==
    IF i > count THEN [stored |-> TRUE, cards |-> newCards, pool |-> pool]
    ELSE LET sh == shuffleArray(pool, seed, (i - 1) * ShuffleCalls(Len(pool)))
         IN  IF Len(sh.arr) < needed
             THEN [stored |-> FALSE, cards |-> newCards, pool |-> sh.array]
             ELSE CardLoop(sh.array, count, needed, seed, i + 1,
                           Append(newCards, [id |-> i, cells |-> Slice(sh.arr, needed)]))

\* a bug: the card is cut to rows * rows cells
generateCards_SquareOfRows(pool, count, rows, cols, seed) ==
    CardLoop(pool, count, rows * rows, seed, 1, << >>)

\* a bug: setCards(newCards) also on the early return
generateCards_StoreOnFailure(pool, count, rows, cols, seed) ==
    [CardLoop(pool, count, rows * cols, seed, 1, << >>) EXCEPT !.stored = TRUE]

\* generateCards(pool, count) of the render with grid rows x cols.
\* stored = FALSE is the early return (console.error, no setCards);
\* otherwise setCards(cards).  pool is the pool array after the call.
generateCards(pool, count, rows, cols, seed) ==
    CardLoop(pool, count, rows * cols, seed, 1, << >>)

(***************************************************************************)
(* The AI service (services/geminiService): an opaque asynchronous call    *)
(* that resolves with typed data or rejects.                               *)
(***************************************************************************)
\* item i of the response with n items; the items of two responses are
\* different objects
Item(n, i) == [id |-> i, pool |-> n]
Pool(n) == [i \in 1..n |-> Item(n, i)]
\* the lengths of its answers: no items at all, too few for any card, and
\* enough for the smaller grids
PoolLens == {0, SmallPoolLen, LargePoolLen - 3, LargePoolLen}
\* the pools generateBingoItems can resolve with
generateBingoItemsResults == { Pool(n) : n \in PoolLens }
\* the contexts detectSubject can resolve with
detectSubjectResults == { [subject |-> "Dieren", isMath |-> m] : m \in BOOLEAN }
Topics == {"", "Dieren"}
EditedNames == {"Breuken"}
Seeds == 0..MaxSeed

(***************************************************************************)
(* Initial state: the useState defaults, after the sizing effect of the    *)
(* first render.                                                           *)
(***************************************************************************)
Init ==
    /\ status = IDLE
    /\ items = << >>
    /\ cards = << >>
    /\ subjectContext = [subject |-> "", isMath |-> FALSE]
    /\ tempSubjectName = ""
    /\ gridRows = InitialGrid
    /\ gridCols = InitialGrid
    /\ cardCount = InitialCardCount
    /\ minPoolSize = suggestedMin(InitialGrid, InitialGrid, InitialCardCount)
    /\ poolSize = suggestedMin(InitialGrid, InitialGrid, InitialCardCount)
    /\ topic = ""
    /\ selectedImage = FALSE
    /\ isDownloading = FALSE
    /\ downloadProgress = 0
    /\ aiCall = NoCall
    /\ export = NoExport
    /\ effects = {}

(***************************************************************************)
(* Settings.  A change of cardCount, gridRows or gridCols re-runs the      *)
(* sizing effect; setting a state to the value it has re-renders nothing.  *)
(***************************************************************************)
SizingEffect(rows, cols, count) ==
    /\ minPoolSize' = suggestedMin(rows, cols, count)
    /\ poolSize' = suggestedMin(rows, cols, count)

SetGridRows(n) ==
    /\ n # gridRows
    /\ gridRows' = n
    /\ SizingEffect(n, gridCols, cardCount)
    /\ effects' = {}
    /\ UNCHANGED << genVars, gridCols, cardCount, inputVars, exportVars, aiCall >>

SetGridCols(n) ==
    /\ n # gridCols
    /\ gridCols' = n
    /\ SizingEffect(gridRows, n, cardCount)
    /\ effects' = {}
    /\ UNCHANGED << genVars, gridRows, cardCount, inputVars, exportVars, aiCall >>

\* onChange of the card count input: parseInt(value) || 0.  A negative
\* count runs no loop and passes every comparison, as 0 does.
SetCardCount(n) ==
    /\ n # cardCount
    /\ cardCount' = n
    /\ SizingEffect(gridRows, gridCols, n)
    /\ effects' = {}
    /\ UNCHANGED << genVars, gridRows, gridCols, inputVars, exportVars, aiCall >>

\* onChange of the pool size input: parseInt(value) || minPoolSize
SetPoolSize(n) ==
    /\ poolSize' = (IF n = 0 THEN minPoolSize ELSE n)
    /\ poolSize' # poolSize
    /\ effects' = {}
    /\ UNCHANGED << genVars, gridRows, gridCols, cardCount, minPoolSize,
                    inputVars, exportVars, aiCall >>

SetTopic(t) ==
    /\ t # topic
    /\ topic' = t
    /\ effects' = {}
    /\ UNCHANGED << genVars, settingVars, selectedImage, exportVars, aiCall >>

\* handleImageUpload (reader.onloadend) and clearImage
SetSelectedImage(b) ==
    /\ b # selectedImage
    /\ selectedImage' = b
    /\ effects' = {}
    /\ UNCHANGED << genVars, settingVars, topic, exportVars, aiCall >>

(***************************************************************************)
(* Generation.                                                             *)
(***************************************************************************)
\* the Generate button is disabled while DETECTING or GENERATING
GenerateEnabled == status \notin {GENERATING, DETECTING}

\* handleStartGeneration with neither topic nor image: alert and return
StartGenerationNoInput ==
    /\ GenerateEnabled
    /\ topic = "" /\ ~selectedImage
    /\ effects' = {"alert_input"}
    /\ UNCHANGED << genVars, settingVars, inputVars, exportVars, aiCall >>

\* a bug: the check of the input is missing
StartGeneration_NoCheck ==
    /\ GenerateEnabled
    /\ status' = DETECTING
    /\ aiCall' = [kind |-> "detectSubject"]
    /\ effects' = {}
    /\ UNCHANGED << items, cards, subjectContext, tempSubjectName,
                    settingVars, inputVars, exportVars >>

\* handleStartGeneration up to its await
StartGeneration ==
    /\ GenerateEnabled
    /\ ~(topic = "" /\ ~selectedImage)
    /\ status' = DETECTING
    /\ aiCall' = [kind |-> "detectSubject"]
    /\ effects' = {}
    /\ UNCHANGED << items, cards, subjectContext, tempSubjectName,
                    settingVars, inputVars, exportVars >>

\* detectSubject resolved: the rest of the try block
DetectResolved(context) ==
    /\ aiCall.kind = "detectSubject"
    /\ subjectContext' = context
    /\ tempSubjectName' = context.subject
    /\ status' = CONFIRMING
    /\ aiCall' = NoCall
    /\ effects' = {}
    /\ UNCHANGED << items, cards, settingVars, inputVars, exportVars >>

\* detectSubject rejected: the catch block
DetectRejected ==
    /\ aiCall.kind = "detectSubject"
    /\ status' = ERROR
    /\ aiCall' = NoCall
    /\ effects' = {"log_error"}
    /\ UNCHANGED << items, cards, subjectContext, tempSubjectName,
                    settingVars, inputVars, exportVars >>

\* the modal is rendered while CONFIRMING
SetTempSubjectName(name) ==
    /\ status = CONFIRMING
    /\ name # tempSubjectName
    /\ tempSubjectName' = name
    /\ effects' = {}
    /\ UNCHANGED << status, items, cards, subjectContext, settingVars,
                    inputVars, exportVars, aiCall >>

ToggleIsMath ==
    /\ status = CONFIRMING
    /\ subjectContext' = [subjectContext EXCEPT !.isMath = ~subjectContext.isMath]
    /\ effects' = {}
    /\ UNCHANGED << status, items, cards, tempSubjectName, settingVars,
                    inputVars, exportVars, aiCall >>

\* Annuleren
CancelConfirm ==
    /\ status = CONFIRMING
    /\ status' = IDLE
    /\ effects' = {}
    /\ UNCHANGED << items, cards, subjectContext, tempSubjectName, settingVars,
                    inputVars, exportVars, aiCall >>

\* handleConfirmAndGenerate up to its await.  The continuation keeps the
\* cardCount and the generateCards (gridRows, gridCols) of this render.
ConfirmAndGenerate ==
    /\ status = CONFIRMING
    /\ cardCount <= MaxCards
    /\ subjectContext' = [subjectContext EXCEPT !.subject = tempSubjectName]
    /\ status' = GENERATING
    /\ aiCall' = [kind |-> "generateBingoItems", poolSize |-> poolSize,
                  cardCount |-> cardCount, rows |-> gridRows, cols |-> gridCols]
    /\ effects' = {}
    /\ UNCHANGED << items, cards, tempSubjectName, settingVars, inputVars,
                    exportVars >>

\* generateBingoItems resolved: setItems(pool), generateCards(pool,
\* cardCount), setStatus(SUCCESS)
GenerateResolved(pool, seed) ==
    /\ aiCall.kind = "generateBingoItems"
    /\ \E g \in {generateCards(pool, aiCall.cardCount, aiCall.rows, aiCall.cols, seed)} :
           /\ items' = g.pool
           /\ cards' = (IF g.stored THEN g.cards ELSE cards)
           /\ effects' = (IF g.stored THEN {"generated"}
                          ELSE {"generated", "log_not_enough"})
    /\ status' = SUCCESS
    /\ aiCall' = NoCall
    /\ UNCHANGED << subjectContext, tempSubjectName, settingVars, inputVars,
                    exportVars >>

\* a bug: the catch block also drops the cards
GenerateRejected_ClearsCards ==
    /\ aiCall.kind = "generateBingoItems"
    /\ status' = ERROR
    /\ cards' = << >>
    /\ aiCall' = NoCall
    /\ effects' = {"log_error"}
    /\ UNCHANGED << items, subjectContext, tempSubjectName,
                    settingVars, inputVars, exportVars >>

\* generateBingoItems rejected: the catch block
GenerateRejected ==
    /\ aiCall.kind = "generateBingoItems"
    /\ status' = ERROR
    /\ aiCall' = NoCall
    /\ effects' = {"log_error"}
    /\ UNCHANGED << items, cards, subjectContext, tempSubjectName,
                    settingVars, inputVars, exportVars >>

\* handleRegenerateCardsOnly; the reshuffle button is rendered while SUCCESS
RegenerateCardsOnly(seed) ==
    /\ status = SUCCESS
    /\ cardCount <= MaxCards
    /\ IF Len(items) > 0
       THEN \E g \in {generateCards(items, cardCount, gridRows, gridCols, seed)} :
                /\ items' = g.pool
                /\ cards' = (IF g.stored THEN g.cards ELSE cards)
                /\ effects' = (IF g.stored THEN {"reshuffle"}
                               ELSE {"reshuffle", "log_not_enough"})
       ELSE /\ UNCHANGED << items, cards >>
            /\ effects' = {"reshuffle"}
    /\ UNCHANGED << status, subjectContext, tempSubjectName,
                    settingVars, inputVars, exportVars, aiCall >>

(***************************************************************************)
(* PDF export: handleDownloadPDF, one action per stretch between awaits.   *)
(* export.pc is the await the invocation is suspended at.                  *)
(***************************************************************************)
\* lengths of generateNativePDF are in 1/Unit mm: cardWidth / cols is a whole
\* number of half millimetres for cols = 3, 4, 5
Unit == 2
cellWidth(cols) == (cardWidth * Unit) \div cols
cellHeight(cols) == cellWidth(cols)
totalCardHeight(rows, cols) == rows * cellHeight(cols) + headerHeight * Unit

\* the cells the loops over r and c draw of a card with n cells
CellsDrawn(n, rows, cols) ==
    { r * cols + c : r \in 0..(rows - 1), c \in 0..(cols - 1) }
    \cap (0..(n - 1))

\* a bug: the page break looks at pageHeight, not at pageHeight - margin
RECURSIVE forEachCard_NoBottomMargin(_, _, _, _, _, _, _)
forEachCard_NoBottomMargin(cells, rows, cols, index, cursorY, page, placed) ==
    IF index >= Len(cells) THEN placed
    ELSE LET colIndex == index % 2
             break == /\ colIndex = 0
                      /\ cursorY + totalCardHeight(rows, cols) > pageHeight * Unit
             y == IF break THEN (margin + 10) * Unit ELSE cursorY
             card == [index |-> index,
                      page |-> IF break THEN page + 1 ELSE page,
                      x |-> (margin + colIndex * (cardWidth + gap)) * Unit,
                      y |-> y,
                      cells |-> CellsDrawn(cells[index + 1], rows, cols)]
         IN  forEachCard_NoBottomMargin(cells, rows, cols, index + 1,
                 IF colIndex = 1 \/ index = Len(cells) - 1
                 THEN y + totalCardHeight(rows, cols) + 10 * Unit ELSE y,
                 card.page, Append(placed, card))

\* cards.forEach of generateNativePDF from card `index` (0-based) on: cells
\* are the numbers of cells of the cards, placed the cards drawn so far
RECURSIVE forEachCard(_, _, _, _, _, _, _)
forEachCard(cells, rows, cols, index, cursorY, page, placed) ==
    IF index >= Len(cells) THEN placed
    ELSE LET colIndex == index % 2
             break == /\ colIndex = 0
                      /\ cursorY + totalCardHeight(rows, cols) > (pageHeight - margin) * Unit
             y == IF break THEN (margin + 10) * Unit ELSE cursorY
             card == [index |-> index,
                      page |-> IF break THEN page + 1 ELSE page,
                      x |-> (margin + colIndex * (cardWidth + gap)) * Unit,
                      y |-> y,
                      cells |-> CellsDrawn(cells[index + 1], rows, cols)]
         IN  forEachCard(cells, rows, cols, index + 1,
                 IF colIndex = 1 \/ index = Len(cells) - 1
                 THEN y + totalCardHeight(rows, cols) + 10 * Unit ELSE y,
                 card.page, Append(placed, card))

\* generateNativePDF(doc): the cards it draws, each with its page, the x and
\* y of its header and the indices of the cells it draws; cursorY starts
\* at 30 on page 1
generateNativePDF(cells, rows, cols) ==
    forEachCard(cells, rows, cols, 0, 30 * Unit, 1, << >>)

\* the slicing of the calling list works on fractions of a pixel:
\* maxSrcHeightPerPage = (pageHeight - 20) / (contentWidth / width) is
\* (pageHeight - 20) * width / contentWidth.  Source offsets and heights are
\* in 1/contentWidth pixel.
maxSrcHeightPerPage(canvas) == (pageHeight - 20) * canvas.width

\* a bug: currentSrcY advances by the whole rows of the slice only
RECURSIVE SliceLoop_WholeRows(_, _, _, _)
SliceLoop_WholeRows(canvas, currentSrcY, remainingSrcHeight, pages) ==
    IF remainingSrcHeight <= 0 THEN pages
    ELSE LET sliceHeight == Min(remainingSrcHeight, maxSrcHeightPerPage(canvas))
         IN  SliceLoop_WholeRows(canvas,
                 currentSrcY + (sliceHeight \div contentWidth) * contentWidth,
                 remainingSrcHeight - sliceHeight,
                 Append(pages, [addPage |-> currentSrcY > 0,
                                srcY |-> currentSrcY,
                                sliceHeight |-> sliceHeight,
                                rows |-> sliceHeight \div contentWidth]))

\* while (remainingSrcHeight > 0): one slice per turn.  rows is the height
\* of tempCanvas, a whole number of pixels (the assignment drops the
\* fraction of sliceHeight).
RECURSIVE SliceLoop(_, _, _, _)
SliceLoop(canvas, currentSrcY, remainingSrcHeight, pages) ==
    IF remainingSrcHeight <= 0 THEN pages
    ELSE LET sliceHeight == Min(remainingSrcHeight, maxSrcHeightPerPage(canvas))
         IN  SliceLoop(canvas, currentSrcY + sliceHeight,
                       remainingSrcHeight - sliceHeight,
                       Append(pages, [addPage |-> currentSrcY > 0,
                                      srcY |-> currentSrcY,
                                      sliceHeight |-> sliceHeight,
                                      rows |-> sliceHeight \div contentWidth]))

\* the images of the calling list handleDownloadPDF adds for listCanvas:
\* the canvas itself when imgHeight = height * contentWidth / width is at
\* most pageHeight - 20, its slices otherwise
ListImages(canvas) ==
    IF canvas.height * contentWidth <= (pageHeight - 20) * canvas.width
    THEN << [addPage |-> FALSE, srcY |-> 0,
             sliceHeight |-> canvas.height * contentWidth,
             rows |-> canvas.height] >>
    ELSE SliceLoop(canvas, 0, canvas.height * contentWidth, << >>)

\* the canvases html2canvas(listElement) resolves with
Canvases == [width : 1..MaxCanvasWidth, height : 1..MaxCanvasHeight]
\* the one it resolves with while exports are interleaved with generations
ShortCanvas == [width |-> 1, height |-> 1]

\* Math.round((i / totalCards) * 80)
CardProgress(i, totalCards) == (2 * 80 * i + totalCards) \div (2 * totalCards)

\* a bug: the Download button is not disabled while isDownloading
DownloadPDF_NotDisabled ==
    /\ status = SUCCESS
    /\ isDownloading' = TRUE
    /\ downloadProgress' = 0
    /\ export' = [pc |-> "startYield", isMath |-> subjectContext.isMath,
                  subject |-> subjectContext.subject, nCards |-> Len(cards),
                  cells |-> [i \in 1..Len(cards) |-> Len(cards[i].cells)],
                  rows |-> gridRows, cols |-> gridCols]
    /\ effects' = {}
    /\ UNCHANGED << genVars, settingVars, inputVars, aiCall >>

\* the Download button is rendered while SUCCESS and disabled while
\* isDownloading.  The invocation keeps the subjectContext, cards and grid
\* of this render.
DownloadPDF ==
    /\ status = SUCCESS
    /\ ~isDownloading
    /\ isDownloading' = TRUE
    /\ downloadProgress' = 0
    /\ export' = [pc |-> "startYield", isMath |-> subjectContext.isMath,
                  subject |-> subjectContext.subject, nCards |-> Len(cards),
                  cells |-> [i \in 1..Len(cards) |-> Len(cards[i].cells)],
                  rows |-> gridRows, cols |-> gridCols]
    /\ effects' = {}
    /\ UNCHANGED << genVars, settingVars, inputVars, aiCall >>

\* after the first timer, native mode: generateNativePDF draws the cards of
\* the invocation's render; setDownloadProgress(80), then (90)
ExportNativeCards ==
    /\ export.pc = "startYield"
    /\ ~export.isMath
    /\ downloadProgress' = 90
    /\ export' = [pc |-> "listYield", subject |-> export.subject,
                  drawn |-> export.nCards,
                  native |-> generateNativePDF(export.cells, export.rows, export.cols)]
    /\ effects' = {}
    /\ UNCHANGED << genVars, settingVars, inputVars, aiCall, isDownloading >>

\* after the first timer, raster mode: querySelectorAll('.bingo-card-export')
\* finds the cards the page shows now
ExportRasterBegin ==
    /\ export.pc = "startYield"
    /\ export.isMath
    /\ IF Len(cards) = 0
       THEN /\ downloadProgress' = 90
            /\ export' = [pc |-> "listYield", subject |-> export.subject,
                          drawn |-> 0, native |-> << >>]
       ELSE /\ downloadProgress' = CardProgress(0, Len(cards))
            /\ export' = [pc |-> "cardYield", subject |-> export.subject,
                          i |-> 0, totalCards |-> Len(cards)]
    /\ effects' = {}
    /\ UNCHANGED << genVars, settingVars, inputVars, aiCall, isDownloading >>

\* the timer of the loop fired: html2canvas(cardEl) is called
ExportCardYielded ==
    /\ export.pc = "cardYield"
    /\ export' = [export EXCEPT !.pc = "cardCanvas"]
    /\ effects' = {}
    /\ UNCHANGED << genVars, settingVars, inputVars, aiCall, isDownloading,
                    downloadProgress >>

\* html2canvas(cardEl) resolved: addImage, next card or the calling list
ExportCardCaptured ==
    /\ export.pc = "cardCanvas"
    /\ IF export.i + 1 < export.totalCards
       THEN /\ downloadProgress' = CardProgress(export.i + 1, export.totalCards)
            /\ export' = [export EXCEPT !.pc = "cardYield", !.i = export.i + 1]
       ELSE /\ downloadProgress' = 90
            /\ export' = [pc |-> "listYield", subject |-> export.subject,
                          drawn |-> export.totalCards, native |-> << >>]
    /\ effects' = {}
    /\ UNCHANGED << genVars, settingVars, inputVars, aiCall, isDownloading >>

\* <div id="calling-list-export"> is rendered
CallingListRendered == Len(items) > 0 /\ status = SUCCESS

\* the end of the try block and the finally block.  Of the invocation that
\* saved a file with the calling list, export keeps listCanvas and the
\* images of the list.
ExportFinish(withList, listCanvas, images) ==
    /\ effects' = (IF withList THEN {"pdf_saved", "pdf_list"} ELSE {"pdf_saved"})
    /\ isDownloading' = FALSE
    /\ downloadProgress' = 0
    /\ export' = (IF withList
                  THEN [pc |-> "none", listCanvas |-> listCanvas, list |-> images]
                  ELSE NoExport)

\* the timer before the calling list fired: pdf.addPage(), then
\* html2canvas(listElement) if the element exists, else straight to pdf.save
ExportListYielded ==
    /\ export.pc = "listYield"
    /\ IF CallingListRendered
       THEN /\ export' = [export EXCEPT !.pc = "listCanvas"]
            /\ effects' = {}
            /\ UNCHANGED << isDownloading, downloadProgress >>
       ELSE ExportFinish(FALSE, << >>, << >>)
    /\ UNCHANGED << genVars, settingVars, inputVars, aiCall >>

\* html2canvas(listElement) resolved with listCanvas: the list is placed,
\* pdf.save
ExportListCaptured(listCanvas) ==
    /\ export.pc = "listCanvas"
    /\ ExportFinish(TRUE, listCanvas, ListImages(listCanvas))
    /\ UNCHANGED << genVars, settingVars, inputVars, aiCall >>

\* a bug: no finally block, the flag stays set after a failure
ExportFailed_NoFinally ==
    /\ export.pc # "none"
    /\ effects' = {"log_pdf_error", "alert_pdf"}
    /\ export' = NoExport
    /\ UNCHANGED << genVars, settingVars, inputVars, aiCall, isDownloading,
                    downloadProgress >>

\* a statement of the try block throws or an awaited html2canvas rejects:
\* the catch block and the finally block
ExportFailed ==
    /\ export.pc # "none"
    /\ effects' = {"log_pdf_error", "alert_pdf"}
    /\ isDownloading' = FALSE
    /\ downloadProgress' = 0
    /\ export' = NoExport
    /\ UNCHANGED << genVars, settingVars, inputVars, aiCall >>

(***************************************************************************)
(* Text or math: how the card view and the calling list show a content.    *)
(* A content is the sequence of its UTF-16 code units.                     *)
(***************************************************************************)
\* [\\={}^_]
MarkupChars == {92, 61, 123, 125, 94, 95}
\* \d
DigitChars == 48..57
\* \s
WhitespaceChars ==
    {9, 10, 11, 12, 13, 32, 160, 5760, 8232, 8233, 8239, 8287, 12288, 65279}
    \cup (8192..8202)
\* . , ? ! ' " -
PunctuationChars == {46, 44, 63, 33, 39, 34, 45}
\* [a-zA-ZÀ-ÿ\s.,?!'"-]
TextChars ==
    (97..122) \cup (65..90) \cup (192..255) \cup WhitespaceChars
    \cup PunctuationChars

\* /[class]/.test(content): some code unit is of the class
TestSome(class, content) == \E i \in 1..Len(content) : content[i] \in class
\* /^[class]+$/.test(content): one or more code units, all of the class
TestAll(class, content) ==
    Len(content) >= 1 /\ \A i \in 1..Len(content) : content[i] \in class

\* a bug: content.length <= 1, a content of two letters is text
BingoCard_shouldRenderAsText_TwoIsText(content) ==
    IF Len(content) = 0 THEN TRUE
    ELSE IF TestSome(MarkupChars, content) THEN FALSE
    ELSE IF TestSome(DigitChars, content) THEN FALSE
    ELSE IF Len(content) <= 1 THEN FALSE
    ELSE TestAll(TextChars, content)

\* shouldRenderAsText of the card view
BingoCard_shouldRenderAsText(content) ==
    IF Len(content) = 0 THEN TRUE
    ELSE IF TestSome(MarkupChars, content) THEN FALSE
    ELSE IF TestSome(DigitChars, content) THEN FALSE
    ELSE IF Len(content) <= 2 THEN FALSE
    ELSE TestAll(TextChars, content)

\* a bug: if (!content) return false, an empty content is math
App_shouldRenderAsText_EmptyIsMath(content) ==
    IF Len(content) = 0 THEN FALSE
    ELSE IF TestSome(MarkupChars, content) THEN FALSE
    ELSE IF TestSome(DigitChars, content) THEN FALSE
    ELSE IF Len(content) <= 2 THEN FALSE
    ELSE TestAll(TextChars, content)

\* shouldRenderAsText of the calling list
App_shouldRenderAsText(content) ==
    IF Len(content) = 0 THEN TRUE
    ELSE IF TestSome(MarkupChars, content) THEN FALSE
    ELSE IF TestSome(DigitChars, content) THEN FALSE
    ELSE IF Len(content) <= 2 THEN FALSE
    ELSE TestAll(TextChars, content)

\* gridRows of <BingoCard rows={gridRows} cols={gridCols}>: the rows the
\* card view shows, card.cells.slice(i * cols, (i + 1) * cols) for i < rows
BingoCard_gridRows(cells, rows, cols) ==
    [i \in 1..rows |-> SubSeq(cells, Min((i - 1) * cols, Len(cells)) + 1,
                                     Min(i * cols, Len(cells)))]

\* a cell of <BingoCard isMath={subjectContext.isMath}>: content is
\* item?.answer || '' (no cell is the free-space marker), shown by
\* <MathDisplay> or in a <span>
CellView(cell, isMath) ==
    LET content == cell.answer
        isTextOverride == isMath /\ BingoCard_shouldRenderAsText(content)
    IN  IF isMath /\ ~isTextOverride THEN "MathDisplay" ELSE "text"

\* the answer and the problem of a row of the calling list
AnswerView(item, isMath) ==
    LET answerIsText == isMath /\ App_shouldRenderAsText(item.answer)
    IN  IF isMath /\ ~answerIsText THEN "MathDisplay" ELSE "text"

ProblemView(item, isMath) ==
    LET problemIsText == isMath /\ App_shouldRenderAsText(item.problem)
    IN  IF isMath /\ ~problemIsText THEN "MathDisplay" ELSE "text"

\* the code units the contents of this model are written with: \ 7 x é,
\* space, - and +
ContentChars == {92, 55, 120, 233, 32, 45, 43}
Contents == UNION { [1..n -> ContentChars] : n \in 0..MaxContentLen }
\* an answer of the AI service whose items all read `content`, enough of
\* them for a card of the initial grid
TextItem(i, content) == [id |-> i, answer |-> content, problem |-> content]
TextPool(content) ==
    [i \in 1..(InitialGrid * InitialGrid) |-> TextItem(i, content)]

(***************************************************************************)
(* Specifications.                                                         *)
(***************************************************************************)
GenerationStep ==
    \/ StartGenerationNoInput
    \/ StartGeneration
    \/ \E c \in detectSubjectResults : DetectResolved(c)
    \/ DetectRejected
    \/ ToggleIsMath
    \/ CancelConfirm
    \/ ConfirmAndGenerate
    \/ \E pool \in generateBingoItemsResults, seed \in Seeds :
           GenerateResolved(pool, seed)
    \/ GenerateRejected
    \/ \E seed \in Seeds : RegenerateCardsOnly(seed)

\* the generation flow under every setting the user can choose
Next ==
    \/ \E n \in GridOptions : SetGridRows(n)
    \/ \E n \in GridOptions : SetGridCols(n)
    \/ \E n \in 0..MaxCards : SetCardCount(n)
    \/ \E t \in Topics : SetTopic(t)
    \/ \E b \in BOOLEAN : SetSelectedImage(b)
    \/ \E name \in EditedNames : SetTempSubjectName(name)
    \/ GenerationStep

Spec == Init /\ [][Next]_vars

\* the sizing effect alone, over more card counts and every grid
NextSizing ==
    \/ \E n \in AllGridOptions : SetGridRows(n)
    \/ \E n \in AllGridOptions : SetGridCols(n)
    \/ \E n \in (0..MaxSizingCards) \cup {HugeCount} : SetCardCount(n)
    \/ \E n \in 0..MaxPoolInput : SetPoolSize(n)

SpecSizing == Init /\ [][NextSizing]_vars

\* exports interleaved with the generation flow, on the initial grid
ExportStep ==
    \/ DownloadPDF
    \/ ExportNativeCards
    \/ ExportRasterBegin
    \/ ExportCardYielded
    \/ ExportCardCaptured
    \/ ExportListYielded
    \/ ExportListCaptured(ShortCanvas)
    \/ ExportFailed

NextExport ==
    \/ \E n \in 0..MaxCards : SetCardCount(n)
    \/ \E t \in Topics : SetTopic(t)
    \/ GenerationStep
    \/ ExportStep

SpecExport == Init /\ [][NextExport]_vars

\* the continuations of a running export: the timer it waits for fires, the
\* html2canvas it waits for resolves or rejects, the statements that follow
\* return or throw
ExportContinues ==
    \/ ExportNativeCards
    \/ ExportRasterBegin
    \/ ExportCardYielded
    \/ ExportCardCaptured
    \/ ExportListYielded
    \/ ExportListCaptured(ShortCanvas)
    \/ ExportFailed

\* the same behaviours, when no awaited timer or call stays pending for ever;
\* nothing is assumed of the user or of the AI service
SpecExportFair == SpecExport /\ WF_vars(ExportContinues)

\* the first generation, of one card on the initial grid, answered with
\* items that carry a content; Math.random() gives 0 throughout
NextRender ==
    \/ \E n \in 1..1 : SetCardCount(n)
    \/ \E t \in Topics : SetTopic(t)
    \/ items = << >> /\ StartGeneration
    \/ \E c \in detectSubjectResults : DetectResolved(c)
    \/ ConfirmAndGenerate
    \/ \E content \in Contents : GenerateResolved(TextPool(content), 0)

SpecRender == Init /\ [][NextRender]_vars

\* the cards of a generation of count cards on a rows x cols grid from a pool
\* of rows * cols items, every shuffle giving the order of the pool
InitPdf ==
    \E rows \in AllGridOptions, cols \in AllGridOptions, count \in 0..MaxPdfCards :
        /\ status = SUCCESS
        /\ items = Pool(rows * cols)
        /\ cards = [i \in 1..count |-> [id |-> i, cells |-> Pool(rows * cols)]]
        /\ subjectContext = [subject |-> "Dieren", isMath |-> FALSE]
        /\ tempSubjectName = "Dieren"
        /\ gridRows = rows
        /\ gridCols = cols
        /\ cardCount = count
        /\ minPoolSize = suggestedMin(rows, cols, count)
        /\ poolSize = suggestedMin(rows, cols, count)
        /\ topic = "Dieren"
        /\ selectedImage = FALSE
        /\ isDownloading = FALSE
        /\ downloadProgress = 0
        /\ aiCall = NoCall
        /\ export = NoExport
        /\ effects = {"generated"}

\* native exports of such sets, for every canvas of the calling list
NextPdf ==
    \/ DownloadPDF
    \/ ExportNativeCards
    \/ ExportListYielded
    \/ \E listCanvas \in Canvases : ExportListCaptured(listCanvas)

SpecPdf == InitPdf /\ [][NextPdf]_vars

(***************************************************************************)
(* Properties.                                                             *)
(***************************************************************************)
Range(s) == { s[i] : i \in 1..Len(s) }
Distinct(s) == \A i, j \in 1..Len(s) : i # j => s[i] # s[j]

\* n choose k by Pascal's rule
RECURSIVE Binomial(_, _)
Binomial(n, k) ==
    IF k < 0 \/ k > n THEN 0
    ELSE IF k = 0 \/ k = n THEN 1
    ELSE Binomial(n - 1, k - 1) + Binomial(n - 1, k)

\* cs is a set of `count` cards with ids 1..count in order, each of k
\* pairwise different cells that are items of pool (so none is the
\* free-space marker)
ValidCards(cs, pool, count, k) ==
    /\ Len(cs) = Cardinality(1..count)
    /\ \A i \in 1..Len(cs) :
          /\ cs[i].id = i
          /\ Len(cs[i].cells) = k
          /\ Distinct(cs[i].cells)
          /\ Range(cs[i].cells) \subseteq Range(pool)

\* C1: a call of generateCards(pool, count) with a pool of pairwise distinct
\* items and at least gridRows * gridCols of them stores exactly count cards
\* with ids 1..count, each of gridRows * gridCols different items of the
\* pool.  The two callers: the continuation of generateBingoItems (with the
\* grid and card count of the render that confirmed) and the reshuffle.
C1_GenerateCardsContract ==
    [][ /\ ( /\ "generated" \in effects'
             /\ Distinct(items')
             /\ Len(items') >= aiCall.rows * aiCall.cols )
           => ValidCards(cards', items', aiCall.cardCount, aiCall.rows * aiCall.cols)
        /\ ( /\ "reshuffle" \in effects'
             /\ Len(items) > 0
             /\ Distinct(items)
             /\ Len(items) >= gridRows * gridCols )
           => ValidCards(cards', items, cardCount, gridRows * gridCols)
      ]_vars

C1_Witness ==
    /\ "reshuffle" \in effects
    /\ Len(items) >= gridRows * gridCols
    /\ gridRows # gridCols
    /\ cardCount = MaxCards
    /\ Len(cards) = MaxCards
    /\ cards[1].cells # cards[2].cells

\* C2: every cell of every stored card is an item of the current pool
C2_CellsFromCurrentPool ==
    \A i \in 1..Len(cards) : Range(cards[i].cells) \subseteq Range(items)

\* C3: whenever the sizing effect runs, it stores the same size in
\* minPoolSize and poolSize, and unless the search ran past its ceiling
\* C(minPoolSize, gridRows * gridCols) >= cardCount
C3_MinPoolHasEnoughCombinations ==
    [][ << gridRows, gridCols, cardCount >>' # << gridRows, gridCols, cardCount >>
        => /\ poolSize' = minPoolSize'
           /\ minPoolSize' <= PoolCeiling
                => Binomial(minPoolSize', gridRows' * gridCols') >= cardCount'
      ]_vars

C3_Witness ==
    /\ gridRows * gridCols = 25
    /\ cardCount > 26
    /\ minPoolSize = 27
    /\ poolSize = 27

\* C4: a press of the reshuffle button leaves items, status, subjectContext,
\* poolSize and cardCount as they were and starts no AI call; with an empty
\* pool it changes no state at all
C4_ReshuffleFrame ==
    [][ "reshuffle" \in effects'
        => /\ items' = items
           /\ status' = status
           /\ subjectContext' = subjectContext
           /\ poolSize' = poolSize
           /\ cardCount' = cardCount
           /\ aiCall' = aiCall
           /\ aiCall' = NoCall
           /\ Len(items) = 0
                => UNCHANGED << genVars, settingVars, inputVars, exportVars, aiCall >>
      ]_vars

C4_Witness ==
    /\ "reshuffle" \in effects
    /\ Len(cards) = MaxCards
    /\ \E i \in 1..Len(items) : cards[1].cells[1] = items[i] /\ i # 1

\* C5: a press of the reshuffle button leaves a card set that is valid for
\* the current settings: cardCount cards of gridRows * gridCols different
\* items of the current pool.  Stated for the presses made while the cards of
\* the last generation are stored (there are cards, and their cells are
\* items of the current pool); the claim is about every press.
C5_ReshuffleGivesValidCards ==
    [][ ( /\ "reshuffle" \in effects'
          /\ status = SUCCESS
          /\ cards # << >>
          /\ C2_CellsFromCurrentPool )
        => ValidCards(cards', items', cardCount', gridRows' * gridCols')
      ]_vars

\* C6: when the pool has at least the computed minimum size for the current
\* settings and the cards are a valid set for them, no two cards hold the
\* same set of items
C6_NoDuplicateCards ==
    ( /\ Len(items) >= suggestedMin(gridRows, gridCols, cardCount)
      /\ Binomial(Len(items), gridRows * gridCols) >= cardCount
      /\ ValidCards(cards, items, cardCount, gridRows * gridCols) )
    => \A i, j \in 1..Len(cards) :
          i # j => Range(cards[i].cells) # Range(cards[j].cells)

\* C7: a call of generateCards with count >= 1 and a pool of fewer than
\* gridRows * gridCols items only logs: the stored cards stay as they were,
\* the caller goes on as if it had worked (status SUCCESS after a
\* generation, unchanged after a reshuffle) and nothing else is reported
C7_SilentFailure ==
    [][ /\ ( /\ "generated" \in effects'
             /\ aiCall.cardCount >= 1
             /\ Len(items') < aiCall.rows * aiCall.cols )
           => /\ cards' = cards
              /\ status' = SUCCESS
              /\ effects' = {"generated", "log_not_enough"}
        /\ ( /\ "reshuffle" \in effects'
             /\ Len(items) > 0
             /\ cardCount >= 1
             /\ Len(items) < gridRows * gridCols )
           => /\ cards' = cards
              /\ status' = status
              /\ effects' = {"reshuffle", "log_not_enough"}
      ]_vars

C7_Witness ==
    /\ "generated" \in effects
    /\ "log_not_enough" \in effects
    /\ Len(items) > 0
    /\ Len(cards) = MaxCards
    /\ ~C2_CellsFromCurrentPool

\* C8: a press of Generate with an empty topic and no image alerts and
\* changes neither status, items, cards nor subjectContext, and no
\* detectSubject call starts from a state with an empty topic and no image
C8_NoInputAlert ==
    [][ /\ "alert_input" \in effects'
           => /\ topic = "" /\ ~selectedImage
              /\ UNCHANGED << status, items, cards, subjectContext, aiCall >>
        /\ (aiCall.kind # "detectSubject" /\ aiCall'.kind = "detectSubject")
           => ~(topic = "" /\ ~selectedImage)
      ]_vars

C8_Witness ==
    /\ "alert_input" \in effects
    /\ status = SUCCESS
    /\ cards # << >>

\* C9: a rejected detectSubject or generateBingoItems call ends in status
\* ERROR with items and cards as they were and no call outstanding; while
\* ERROR no call is outstanding, and the only call that starts from ERROR is
\* the detectSubject of a new run
C9_AIFailure ==
    [][ /\ "log_error" \in effects'
           => /\ status' = ERROR
              /\ items' = items
              /\ cards' = cards
              /\ aiCall.kind # "none"
              /\ aiCall' = NoCall
        /\ status = ERROR
           => /\ aiCall = NoCall
              /\ aiCall' # aiCall
                   => /\ aiCall'.kind = "detectSubject"
                      /\ status' = DETECTING
                      /\ ~(topic = "" /\ ~selectedImage)
      ]_vars

C9_Witness ==
    /\ "log_error" \in effects
    /\ status = ERROR
    /\ cards # << >>
    /\ items # << >>

\* C10: no step of an export changes status, items or cards, and when the
\* export ends isDownloading is false and downloadProgress is 0; it ends
\* either with the file saved or with an alert, never both
C10_ExportEnds ==
    [][ export' # export
        => /\ UNCHANGED << status, items, cards >>
           /\ export'.pc = "none"
                => /\ ~isDownloading'
                   /\ downloadProgress' = 0
                   /\ "alert_pdf" \in effects' <=> "pdf_saved" \notin effects'
      ]_vars

C10_Witness ==
    /\ "alert_pdf" \in effects
    /\ export.pc = "none"
    /\ ~isDownloading
    /\ subjectContext.isMath
    /\ cards # << >>

\* the calls of detectSubject, generateBingoItems and html2canvas that have
\* been made and have neither resolved nor rejected yet
OutstandingCalls ==
    (IF aiCall.kind # "none" THEN {aiCall.kind} ELSE {})
    \cup (IF export.pc \in {"cardCanvas", "listCanvas"} THEN {"html2canvas"} ELSE {})

\* C11: every export that reaches pdf.save has placed the calling list after
\* the card pages, whatever the user does between its asynchronous steps.
\* Stated for the exports that have placed at least one card and save while
\* the pool is not empty; the claim is about every export.
C11_SaveHasCallingList ==
    [][ ("pdf_saved" \in effects' /\ Len(items) > 0 /\ export.drawn > 0)
        => "pdf_list" \in effects'
      ]_vars

\* C12: in no reachable state are two of the calls detectSubject,
\* generateBingoItems and html2canvas outstanding at the same time
C12_NoParallelCalls == Cardinality(OutstandingCalls) <= 1

\* the contents the card view shows, and those the calling list shows
CardContents == UNION { { cards[i].cells[j].answer : j \in 1..Len(cards[i].cells) } :
                        i \in 1..Len(cards) }
ListContents == UNION { {items[i].answer, items[i].problem} : i \in 1..Len(items) }

\* C13: the card view and the calling list classify every content alike:
\* the two shouldRenderAsText agree on every content either of them shows,
\* and a cell shows an item's answer the way the item's row of the list does
C13_SameClassification ==
    /\ \A content \in CardContents \cup ListContents :
          BingoCard_shouldRenderAsText(content) = App_shouldRenderAsText(content)
    /\ \A i \in 1..Len(cards) : \A j \in 1..Len(cards[i].cells) :
          \A k \in 1..Len(items) :
             cards[i].cells[j] = items[k]
             => CellView(cards[i].cells[j], subjectContext.isMath)
                   = AnswerView(items[k], subjectContext.isMath)

C13_Witness ==
    /\ subjectContext.isMath
    /\ cards # << >>
    /\ \E content \in CardContents \cap ListContents :
          /\ Len(content) = 2
          /\ ~BingoCard_shouldRenderAsText(content)
          /\ TestAll(TextChars, content)

\* the letters of a-z, A-Z and U+00C0..U+00FF (the two signs there, the
\* multiplication and the division sign, are not letters)
Letters == (97..122) \cup (65..90) \cup ((192..255) \ {215, 247})

\* C14, for one content and the view that shows it
RendersAsClaimed(content, view) ==
    IF subjectContext.isMath
    THEN /\ ( \/ TestSome(MarkupChars \cup DigitChars, content)
              \/ Len(content) \in {1, 2} )
            => view = "MathDisplay"
         /\ ( \/ Len(content) = 0
              \/ /\ Len(content) > 2
                 /\ \A i \in 1..Len(content) :
                       content[i] \in Letters \cup WhitespaceChars \cup PunctuationChars )
            => view = "text"
    ELSE view = "text"

C15_DefinedTransitions ==
    [][ status' # status
        => /\ status' = GENERATING => status = CONFIRMING
           /\ status' = CONFIRMING => status = DETECTING
           /\ status' = SUCCESS => status = GENERATING
           /\ status' = ERROR => status \in {DETECTING, GENERATING}
           /\ status' = IDLE => status = CONFIRMING
           /\ status' = DETECTING => status \in {IDLE, SUCCESS, ERROR}
      ]_vars

\* the least pool size n >= k with C(n, k) >= count, when there is one up to
\* the ceiling
HasLeastPool(k, count) ==
    count # HugeCount /\ \E n \in k..PoolCeiling : Binomial(n, k) >= count
LeastPool(k, count) ==
    CHOOSE n \in k..PoolCeiling :
        /\ Binomial(n, k) >= count
        /\ \A m \in k..(n - 1) : Binomial(m, k) < count

\* C16: after every change of cardCount, gridRows or gridCols, when the
\* search is not capped, minPoolSize and poolSize both are
\* max(k + 1, the least n >= k with C(n, k) >= cardCount), k = gridRows *
\* gridCols, whatever pool size the user had entered
C16_PoolSizeIsMinimum ==
    [][ ( /\ << gridRows, gridCols, cardCount >>' # << gridRows, gridCols, cardCount >>
          /\ HasLeastPool(gridRows' * gridCols', cardCount') )
        => /\ minPoolSize' = Max(gridRows' * gridCols' + 1,
                                 LeastPool(gridRows' * gridCols', cardCount'))
           /\ poolSize' = minPoolSize'
      ]_vars

C16_Witness ==
    /\ gridRows * gridCols = 12
    /\ cardCount = 14
    /\ minPoolSize = 14
    /\ poolSize = 14

\* C17: the minimum pool size the search stores is at most 100, for every
\* card count and grid
C17_MinPoolAtMostCeiling == minPoolSize <= PoolCeiling

RECURSIVE SumOf(_, _)
SumOf(f, n) == IF n = 0 THEN 0 ELSE f[n] + SumOf(f, n - 1)

\* C18: a calling list whose image is taller than 277 mm at a width of 190 mm
\* is cut into consecutive slices, one per page: the first starts at source
\* offset 0, each starts where the one before ended, each is more than 0 and
\* at most 277 mm high (277 * width / 190 pixels), the heights add up to the
\* height of the canvas, and a page is added for every slice but the first;
\* a list that fits is placed whole on one page.  Offsets and heights in
\* 1/190 pixel.
C18_ListSlices ==
    export.pc = "none" /\ "list" \in DOMAIN export
    => LET canvas == export.listCanvas
           list == export.list
       IN  IF canvas.height * 190 > 277 * canvas.width
           THEN /\ Len(list) >= 2
                /\ list[1].srcY = 0
                /\ \A i \in 2..Len(list) :
                      list[i].srcY = list[i - 1].srcY + list[i - 1].sliceHeight
                /\ \A i \in 1..Len(list) :
                      /\ list[i].sliceHeight > 0
                      /\ list[i].sliceHeight <= 277 * canvas.width
                      /\ list[i].addPage <=> i > 1
                /\ SumOf([i \in 1..Len(list) |-> list[i].sliceHeight], Len(list))
                      = canvas.height * 190
           ELSE /\ Len(list) = 1
                /\ list[1].srcY = 0
                /\ list[1].sliceHeight = canvas.height * 190
                /\ list[1].rows = canvas.height
                /\ ~list[1].addPage

C18_Witness ==
    /\ export.pc = "none" /\ "list" \in DOMAIN export
    /\ export.listCanvas.width = MaxCanvasWidth
    /\ Len(export.list) = 3
    /\ export.list[3].sliceHeight < export.list[2].sliceHeight
    /\ export.list[3].addPage

\* C19: in the native export, for every grid and number of cards, the cards
\* are placed in index order two per row, an even index at the left (x = 10
\* mm), an odd one at the right (x = 110 mm) on the page and at the y of the
\* card before it; the page changes only before a card of the left column;
\* and every card is inside the margins: y >= 10 mm and y + 8 mm +
\* rows * cellHeight <= 287 mm, cellHeight = 90 mm / cols.  In half mm.
C19_NativeLayout ==
    export.pc \in {"listYield", "listCanvas"}
    => LET placed == export.native
       IN  /\ Len(placed) = Len(cards)
           /\ \A i \in 1..Len(placed) :
                 /\ placed[i].index = i - 1
                 /\ placed[i].x = (IF (i - 1) % 2 = 0 THEN 2 * 10 ELSE 2 * 110)
                 /\ (i - 1) % 2 = 1
                    => /\ placed[i].y = placed[i - 1].y
                       /\ placed[i].page = placed[i - 1].page
                 /\ (i > 1 /\ (i - 1) % 2 = 0)
                    => \/ placed[i].page = placed[i - 1].page /\ placed[i].y > placed[i - 1].y
                       \/ placed[i].page = placed[i - 1].page + 1
                 /\ placed[i].y >= 2 * 10
                 /\ placed[i].y + 2 * 8 + (gridRows * 2 * 90) \div gridCols <= 2 * 287

C19_Witness ==
    /\ export.pc = "listYield"
    /\ gridRows = 5 /\ gridCols = 3
    /\ Len(export.native) = MaxPdfCards
    /\ \E i \in 2..Len(export.native) :
          /\ export.native[i].page > export.native[i - 1].page
          /\ export.native[i - 1].page > 2

\* C20: every stored card has gridRows * gridCols cells for the current
\* grid, so that the card view shows it in gridRows rows of gridCols cells
C20_CardsFitGrid ==
    \A i \in 1..Len(cards) :
       /\ Len(cards[i].cells) = gridRows * gridCols
       /\ \A r \in 1..gridRows :
             Len(BingoCard_gridRows(cards[i].cells, gridRows, gridCols)[r]) = gridCols

\* the awaits of handleDownloadPDF in the order it reaches them
ExportAwaitFollows(pc, next) ==
    \/ pc = "startYield" /\ next \in {"cardYield", "listYield"}
    \/ pc = "cardYield" /\ next = "cardCanvas"
    \/ pc = "cardCanvas" /\ next \in {"cardYield", "listYield"}
    \/ pc = "listYield" /\ next = "listCanvas"

\* C21: every export that starts ends, with isDownloading false, and until
\* it ends every step either leaves it alone, takes it to its next await, or
\* ends it with the file saved or with the alert of a failure: no step
\* cancels it and none starts a second export
C21_ExportRunsToEnd ==
    /\ [][ /\ isDownloading <=> export.pc # "none"
           /\ export.pc # "none"
              => \/ UNCHANGED << export, isDownloading >>
                 \/ /\ ExportAwaitFollows(export.pc, export'.pc)
                    /\ isDownloading'
                 \/ /\ export'.pc = "none"
                    /\ ~isDownloading'
                    /\ \/ "pdf_saved" \in effects'
                       \/ "alert_pdf" \in effects'
         ]_vars
    /\ (export.pc # "none") ~> (export.pc = "none" /\ ~isDownloading)

C21_Witness ==
    /\ export.pc = "none"
    /\ ~isDownloading
    /\ "pdf_saved" \in effects
    /\ status = ERROR
    /\ cards # << >>

====
